---- MODULE Spec2Model ----
(***************************************************************************)
(* Model of the log collector "logc" (src/src/logc_tool/logc.py) and of    *)
(* its earlier single-script variant (src/logc.py).                        *)
(*                                                                         *)
(* A Python str is a sequence of one-character strings; a Python value is  *)
(* a tagged record, so that a str and a list of str stay different values  *)
(* and iterating over a str yields its characters, as in Python.           *)
(***************************************************************************)
EXTENDS Integers, Sequences, FiniteSets, TLC

\* ------------------------------------------------------------------------
\* Python values
\* ------------------------------------------------------------------------
PyNone == [t |-> "none"]
PyStr(s) == [t |-> "str", v |-> s]
PyList(l) == [t |-> "list", v |-> l]

\* Truth value of an argparse attribute: None, "" and [] are false.
Truthy(x) == x.t # "none" /\ Len(x.v) > 0

\* The elements a for-loop over x visits: the items of a list, the
\* one-character strings of a str.
Iter(x) == IF x.t = "str" THEN [i \in 1..Len(x.v) |-> <<x.v[i]>>] ELSE x.v

\* ------------------------------------------------------------------------
\* str operations
\* ------------------------------------------------------------------------
Whitespace == {" ", "\n", "\t", "\r"}

UpperCs == <<"A","B","C","D","E","F","G","H","I","J","K","L","M",
             "N","O","P","Q","R","S","T","U","V","W","X","Y","Z">>
LowerCs == <<"a","b","c","d","e","f","g","h","i","j","k","l","m",
             "n","o","p","q","r","s","t","u","v","w","x","y","z">>
Digits == {"0","1","2","3","4","5","6","7","8","9"}

LowerChar(c) ==
    IF \E i \in 1..26 : UpperCs[i] = c
    THEN LowerCs[CHOOSE i \in 1..26 : UpperCs[i] = c]
    ELSE c

\* str.lower()
lower(s) == [i \in 1..Len(s) |-> LowerChar(s[i])]

\* str.strip()
strip(s) ==
    LET keep == {i \in 1..Len(s) : s[i] \notin Whitespace}
    IN  IF keep = {} THEN <<>>
        ELSE LET lo == CHOOSE i \in keep : \A j \in keep : i <= j
                 hi == CHOOSE i \in keep : \A j \in keep : j <= i
             IN  SubSeq(s, lo, hi)

\* sub in s   (substring containment of str)
Contains(sub, s) ==
    \E i \in 0..(Len(s) - Len(sub)) : SubSeq(s, i + 1, i + Len(sub)) = sub

\* s starts with pre at (1-based) position p
MatchAt(s, p, pre) ==
    /\ p + Len(pre) - 1 <= Len(s)
    /\ SubSeq(s, p, p + Len(pre) - 1) = pre

SepTo == <<" ", "t", "o", " ">>

\* str.split(" to "): the list of pieces between non-overlapping
\* occurrences of the separator, scanned left to right
RECURSIVE SplitFrom(_, _, _)
SplitFrom(s, p, start) ==
    IF p + 3 > Len(s) THEN <<SubSeq(s, start, Len(s))>>
    ELSE IF MatchAt(s, p, SepTo)
         THEN <<SubSeq(s, start, p - 1)>> \o SplitFrom(s, p + 4, p + 4)
         ELSE SplitFrom(s, p + 1, start)

split_to(s) == SplitFrom(s, 1, 1)

\* x in c for a Python container c: item membership for a list,
\* substring containment for a str
PyIn(x, c) ==
    IF c.t = "str" THEN Contains(x, c.v)
    ELSE \E i \in 1..Len(c.v) : c.v[i] = x

PatternNotFound ==
    <<"P","a","t","t","e","r","n"," ","n","o","t"," ","f","o","u","n","d">>

\* ------------------------------------------------------------------------
\* Time expression syntax (BSD_FORMAT, SD_SYSLOG_FORMAT; re.IGNORECASE)
\* ------------------------------------------------------------------------
Months == { <<"j","a","n">>, <<"f","e","b">>, <<"m","a","r">>, <<"a","p","r">>,
            <<"m","a","y">>, <<"j","u","n">>, <<"j","u","l">>, <<"a","u","g">>,
            <<"s","e","p">>, <<"o","c","t">>, <<"n","o","v">>, <<"d","e","c">> }

IsDigit(s, i) == i >= 1 /\ i <= Len(s) /\ s[i] \in Digits
IsChar(s, i, c) == i >= 1 /\ i <= Len(s) /\ s[i] = c

\* "$": end of the string, or just before a final newline
AtEnd(s, q) == q = Len(s) + 1 \/ (q = Len(s) /\ s[q] = "\n")

\* the month alternative at position p; with re.IGNORECASE (ic) in any
\* letter case, without it capitalised as written in the pattern
MonthAt(s, p, ic) ==
    /\ p + 2 <= Len(s)
    /\ lower(SubSeq(s, p, p + 2)) \in Months
    /\ (~ic => /\ s[p] # LowerChar(s[p])
               /\ s[p + 1] = LowerChar(s[p + 1])
               /\ s[p + 2] = LowerChar(s[p + 2]))

\* positions right after "(Jan|...|Dec)  ?\d?\d" matched from position p
BsdDayEnds(s, p, ic) ==
    IF MonthAt(s, p, ic) /\ IsChar(s, p + 3, " ")
    THEN { e \in 1..(Len(s) + 1) :
             \E sp \in {0, 1}, nd \in {1, 2} :
                /\ e = p + 4 + sp + nd
                /\ (sp = 1 => IsChar(s, p + 4, " "))
                /\ \A k \in (p + 4 + sp)..(e - 1) : IsDigit(s, k) }
    ELSE {}

\* positions right after "( \d\d(:\d\d(:\d\d)?)?)?" matched from position e
ClockEnds(s, e) ==
    LET hh == IsChar(s, e, " ") /\ IsDigit(s, e + 1) /\ IsDigit(s, e + 2)
        mm == hh /\ IsChar(s, e + 3, ":") /\ IsDigit(s, e + 4) /\ IsDigit(s, e + 5)
        ss == mm /\ IsChar(s, e + 6, ":") /\ IsDigit(s, e + 7) /\ IsDigit(s, e + 8)
    IN  {e} \cup (IF hh THEN {e + 3} ELSE {}) \cup (IF mm THEN {e + 6} ELSE {})
            \cup (IF ss THEN {e + 9} ELSE {})

\* positions right after one BSD token matched from position p
BsdTokEnds(s, p, ic) == UNION { ClockEnds(s, e) : e \in BsdDayEnds(s, p, ic) }

\* a search for the BSD pattern, which is anchored at both ends
BsdSearch(s, ic) ==
    \E q \in BsdTokEnds(s, 1, ic) :
        \/ AtEnd(s, q)
        \/ /\ q + 3 <= Len(s)
           /\ (IF ic THEN lower(SubSeq(s, q, q + 3)) ELSE SubSeq(s, q, q + 3)) = SepTo
           /\ \E r \in BsdTokEnds(s, q + 4, ic) : AtEnd(s, r)

\* re.search(BSD_FORMAT, time, re.IGNORECASE)
BSD_FORMAT(s) == BsdSearch(s, TRUE)

\* re.search(SD_SYSLOG_FORMAT, time [, re.IGNORECASE]): the pattern is not
\* anchored and all of it after the date is optional, so the search
\* succeeds exactly when "\d\d\d\d-\d\d-\d\d" occurs somewhere
SD_SYSLOG_FORMAT(s) ==
    \E p \in 1..Len(s) :
        /\ \A k \in {p, p + 1, p + 2, p + 3, p + 5, p + 6, p + 8, p + 9} : IsDigit(s, k)
        /\ IsChar(s, p + 4, "-")
        /\ IsChar(s, p + 7, "-")

\* ------------------------------------------------------------------------
\* parse_by_time
\* ------------------------------------------------------------------------
Ok(v) == [exc |-> "None", val |-> v]
Raise(e) == [exc |-> e, val |-> PyNone]

\* range_counter with the second existence loop left out
range_counter_lower_only(logs, min, max) ==
    IF \E i \in 1..Len(logs) : Contains(min, logs[i]) THEN 2 ELSE 0

\* the two existence loops that count the bounds present in the file
range_counter(logs, min, max) ==
    (IF \E i \in 1..Len(logs) : Contains(min, logs[i]) THEN 1 ELSE 0) +
    (IF \E i \in 1..Len(logs) : Contains(max, logs[i]) THEN 1 ELSE 0)

\* range_scan with a break after the first line that holds the upper bound
RECURSIVE range_scan_break(_, _, _, _, _)
range_scan_break(logs, i, min, max, inside_range) ==
    IF i > Len(logs) THEN <<>>
    ELSE LET log == logs[i]
             lo == Contains(min, log)
             in1 == inside_range \/ lo
             hi == Contains(max, log)
         IN  (IF lo THEN <<strip(log)>> ELSE <<>>) \o
             (IF in1 THEN <<strip(log)>> ELSE <<>>) \o
             (IF hi THEN <<strip(log)>> ELSE <<>>) \o
             (IF hi THEN <<>> ELSE range_scan_break(logs, i + 1, min, max, in1))

\* range_scan with the three tests chained, one append per line
RECURSIVE range_scan_once(_, _, _, _, _)
range_scan_once(logs, i, min, max, inside_range) ==
    IF i > Len(logs) THEN <<>>
    ELSE LET log == logs[i]
             lo == Contains(min, log)
             in1 == inside_range \/ lo
             hi == Contains(max, log)
         IN  (IF lo \/ in1 \/ hi THEN <<strip(log)>> ELSE <<>>) \o
             range_scan_once(logs, i + 1, min, max, IF hi THEN FALSE ELSE in1)

\* the range loop from line i on, inside_range being the flag on entry
RECURSIVE range_scan(_, _, _, _, _)
range_scan(logs, i, min, max, inside_range) ==
    IF i > Len(logs) THEN <<>>
    ELSE LET log == logs[i]
             lo == Contains(min, log)
             in1 == inside_range \/ lo
             hi == Contains(max, log)
         IN  (IF lo THEN <<strip(log)>> ELSE <<>>) \o
             (IF in1 THEN <<strip(log)>> ELSE <<>>) \o
             (IF hi THEN <<strip(log)>> ELSE <<>>) \o
             range_scan(logs, i + 1, min, max, IF hi THEN FALSE ELSE in1)

\* the single-timestamp loop
RECURSIVE stamp_scan(_, _, _)
stamp_scan(logs, i, time) ==
    IF i > Len(logs) THEN <<>>
    ELSE (IF Contains(time, logs[i]) THEN <<strip(logs[i])>> ELSE <<>>) \o
         stamp_scan(logs, i + 1, time)

\* parse_by_time without the test of the number of files
parse_by_time_any_count(file, time, nfiles) ==
    IF ~BSD_FORMAT(time) /\ ~SD_SYSLOG_FORMAT(time) THEN Raise("InvalidTimeError")
    ELSE IF Contains(SepTo, time)
         THEN LET parts == split_to(time)
              IN  IF Len(parts) # 2 THEN Raise("ValueError")
                  ELSE IF range_counter(Iter(file), parts[1], parts[2]) # 2
                       THEN Raise("NonExistentRangeError")
                       ELSE Ok(PyList(range_scan(Iter(file), 1, parts[1], parts[2], FALSE)))
         ELSE LET tmp == stamp_scan(Iter(file), 1, time)
              IN  IF tmp = <<>> THEN Ok(PyStr(PatternNotFound)) ELSE Ok(PyList(tmp))

\* parse_by_time(file, time, files); nfiles is len(files)
parse_by_time(file, time, nfiles) ==
    IF ~BSD_FORMAT(time) /\ ~SD_SYSLOG_FORMAT(time) THEN Raise("InvalidTimeError")
    ELSE IF Contains(SepTo, time) /\ nfiles # 1 THEN Raise("MoreThanOneFileError")
    ELSE IF Contains(SepTo, time)
         THEN LET parts == split_to(time)
              IN  IF Len(parts) # 2 THEN Raise("ValueError")
                  ELSE IF range_counter(Iter(file), parts[1], parts[2]) # 2
                       THEN Raise("NonExistentRangeError")
                       ELSE Ok(PyList(range_scan(Iter(file), 1, parts[1], parts[2], FALSE)))
         ELSE LET tmp == stamp_scan(Iter(file), 1, time)
              IN  IF tmp = <<>> THEN Ok(PyStr(PatternNotFound)) ELSE Ok(PyList(tmp))

\* ------------------------------------------------------------------------
\* parse_by_key and its helpers
\* ------------------------------------------------------------------------
kw_and == <<"a","n","d">>
kw_or == <<"o","r">>

InList(x, l) == \E i \in 1..Len(l) : l[i] = x

RECURSIVE remove_operator(_)
remove_operator(keys) ==
    IF keys = <<>> THEN <<>>
    ELSE LET key == lower(Head(keys))
         IN  (IF key = kw_and \/ key = kw_or THEN <<>> ELSE <<key>>) \o
             remove_operator(Tail(keys))

\* the single-keyword loop of parse_by_key
RECURSIVE single_key(_, _, _)
single_key(logs, i, key) ==
    IF i > Len(logs) THEN <<>>
    ELSE (IF Contains(key, logs[i]) THEN <<strip(logs[i])>> ELSE <<>>) \o
         single_key(logs, i + 1, key)

RECURSIVE and_filter(_, _, _)
and_filter(logs, i, keys) ==
    IF i > Len(logs) THEN <<>>
    ELSE (IF \A k \in 1..Len(keys) : Contains(keys[k], logs[i])
          THEN <<strip(logs[i])>> ELSE <<>>) \o
         and_filter(logs, i + 1, keys)

\* the copies of one log that the inner loop of or_filter appends
RECURSIVE or_copies(_, _, _)
or_copies(log, keys, k) ==
    IF k > Len(keys) THEN <<>>
    ELSE (IF Contains(keys[k], log) THEN <<strip(log)>> ELSE <<>>) \o
         or_copies(log, keys, k + 1)

RECURSIVE or_filter(_, _, _)
or_filter(logs, i, keys) ==
    IF i > Len(logs) THEN <<>>
    ELSE or_copies(logs[i], keys, 1) \o or_filter(logs, i + 1, keys)

\* operator_branch with the test for both operators placed last
operator_branch_and_first(keys) ==
    IF InList(kw_and, keys) THEN "and"
    ELSE IF InList(kw_or, keys) THEN "or"
    ELSE IF InList(kw_and, keys) /\ InList(kw_or, keys) THEN "BothOperatorsError"
    ELSE "NoOperatorError"

\* which branch of the operator test parse_by_key takes for len(keys) > 1
operator_branch(keys) ==
    IF InList(kw_and, keys) /\ InList(kw_or, keys) THEN "BothOperatorsError"
    ELSE IF InList(kw_and, keys) THEN "and"
    ELSE IF InList(kw_or, keys) THEN "or"
    ELSE "NoOperatorError"

\* parse_by_key(file, keys); file is whatever main passes, a list of logs
\* or the str that parse_by_time returned
parse_by_key(file, keys) ==
    LET logs == Iter(file)
        br == operator_branch(keys)
        tmp == IF Len(keys) > 1
               THEN IF br = "and" THEN and_filter(logs, 1, remove_operator(keys))
                    ELSE or_filter(logs, 1, remove_operator(keys))
               ELSE IF Len(keys) = 1 THEN single_key(logs, 1, keys[1])
               ELSE <<>>
    IN  IF Len(keys) > 1 /\ br \in {"BothOperatorsError", "NoOperatorError"}
        THEN Raise(br)
        ELSE Ok(PyList(IF tmp = <<>> THEN <<PatternNotFound>> ELSE tmp))

\* ------------------------------------------------------------------------
\* lower_input and restore_logs
\* ------------------------------------------------------------------------
\* lower_input(file, keys, time); raises TypeError when keys is None
lower_input(file, keys, time) ==
    IF keys.t = "none" THEN Raise("TypeError")
    ELSE Ok([file |-> PyList([i \in 1..Len(file.v) |-> lower(file.v[i])]),
             keys |-> PyList([i \in 1..Len(Iter(keys)) |-> lower(Iter(keys)[i])]),
             time |-> IF time.t = "none" THEN PyNone ELSE PyStr(lower(time.v))])

\* the original logs that the inner loop of restore_logs appends for one
\* lowered log
RECURSIVE restore_one(_, _, _)
restore_one(lower_log, real, j) ==
    IF j > Len(real) THEN <<>>
    ELSE (IF Contains(lower_log, lower(real[j])) THEN <<strip(real[j])>> ELSE <<>>) \o
         restore_one(lower_log, real, j + 1)

RECURSIVE restore_from(_, _, _)
restore_from(logs, i, real) ==
    IF i > Len(logs) THEN <<>>
    ELSE restore_one(logs[i], real, 1) \o restore_from(logs, i + 1, real)

restore_logs(file, real_file) == PyList(restore_from(Iter(file), 1, real_file.v))

\* ------------------------------------------------------------------------
\* Bounds and input sets
\* ------------------------------------------------------------------------
MaxFiles == 2       \* selected members per run
MaxRunLines == 2    \* lines per member in a run
MaxLines == 3       \* lines of the file handed to one filter call
MaxKeys == 3        \* tokens of the key list handed to parse_by_key

s_Oct1 == <<"O","c","t"," ","1">>
s_Oct2 == <<"O","c","t"," ","2">>
s_Oct11 == <<"O","c","t"," ","1","1">>
s_Octo == <<"O","c","t","o">>
s_a == <<"a">>
s_B == <<"B">>
s_AND == <<"A","N","D">>
s_Or == <<"O","r">>
nl == <<"\n">>

\* log lines, with their line terminator as readlines() returns them
line_1a == s_Oct1 \o <<" ">> \o s_a \o nl
line_2B == s_Oct2 \o <<" ">> \o s_B \o nl
line_11aB == <<" ">> \o s_Oct11 \o <<" ">> \o s_a \o s_B \o nl
line_x == <<"x">> \o nl

line_1A == s_Oct1 \o <<" ", "A">> \o nl

RunLineSet == {line_1a, line_2B}
RestoreLineSet == {line_1a, line_1A, line_2B, line_11aB}
LineSet == {line_1a, line_2B, line_11aB, line_x}
KeyLineSet == {line_1a, line_2B, line_11aB}

\* the time expressions handed to parse_by_time
s_iso3 == <<"1","1","1","1","-","1","1","-","1","1">> \o SepTo \o <<"1">> \o SepTo \o <<"1">>
s_iso == <<"1","1","1","1","-","1","1","-","1","1">>
s_xiso == <<"x">> \o s_iso
CallTimes == {s_Oct1, s_Oct2, s_Octo, s_iso3, s_iso, s_xiso, s_iso \o SepTo \o s_iso,
              s_Oct1 \o SepTo \o s_Oct2, s_Oct2 \o SepTo \o s_Oct1,
              s_Oct1 \o SepTo \o s_Oct11, s_Octo \o SepTo \o s_Oct1}

\* the tokens a key list is made of
KeyTokens == {s_a, s_B, kw_and, s_AND, kw_or, s_Or}

RECURSIVE SeqsUpTo(_, _)
SeqsUpTo(S, n) ==
    IF n = 0 THEN {<<>>}
    ELSE LET shorter == SeqsUpTo(S, n - 1)
         IN  shorter \cup {Append(q, x) : q \in {r \in shorter : Len(r) = n - 1}, x \in S}

\* the -t values of a run
RunTimes == {PyNone, PyStr(s_Oct1), PyStr(s_Oct2),
             PyStr(s_Oct1 \o SepTo \o s_Oct2), PyStr(s_Octo)}

\* the -k values of a run
RunKeys == {PyNone, PyList(<<s_a>>), PyList(<<s_B>>),
            PyList(<<s_a, kw_and, s_B>>), PyList(<<s_a, kw_or, s_B>>),
            PyList(<<s_a, s_B>>), PyList(<<s_a, kw_and, kw_or>>)}

\* member names, in the order -f lists them
Names == <<"messages", "chassisd", "interactive-commands">>

\* what the archive holds under a selected name: a regular file with its
\* lines, an entry extractfile() returns None for, a file whose bytes do not
\* decode, or nothing
Members ==
    {[k |-> "file", lines |-> l] : l \in SeqsUpTo(RunLineSet, MaxRunLines)} \cup
    {[k |-> "notfile", lines |-> <<>>], [k |-> "undecodable", lines |-> <<>>],
     [k |-> "missing", lines |-> <<>>]}

\* ------------------------------------------------------------------------
\* State
\* ------------------------------------------------------------------------
VARIABLES
    args,            \* the argparse Namespace: file, time, key, ignore_case
    archive,         \* the source archive: member index -> Members
    files,           \* the list open_tgz returned
    origin,          \* for each entry of files, the index of the member read
    filtered_files,  \* per-file results collected by main
    done,            \* number of selected members already handled
    dest,            \* what has been written to the destination file
    pc,              \* position in main
    exit,            \* "None" while running, then the outcome of the run
    call             \* one application of a filter function (SpecTime, SpecKey)

vars == <<args, archive, files, origin, filtered_files, done, dest, pc, exit, call>>

NoCall == [fn |-> "none"]

titles == args.file

\* ------------------------------------------------------------------------
\* src/src/logc_tool/logc.py: main
\* ------------------------------------------------------------------------
Init ==
    /\ \E n \in 1..MaxFiles, t \in RunTimes, k \in RunKeys, ic \in BOOLEAN :
          /\ args = [file |-> SubSeq(Names, 1, n), time |-> t, key |-> k, ignore_case |-> ic]
          /\ archive \in [1..n -> Members]
    /\ files = <<>>
    /\ origin = <<>>
    /\ filtered_files = <<>>
    /\ done = 0
    /\ dest = <<>>
    /\ pc = "parse_args"
    /\ exit = "None"
    /\ call = NoCall

\* sys.exit(...) from one of the except clauses of main
Abort(e) ==
    /\ pc' = "exit"
    /\ exit' = e

\* parse_args: the check after argparse
ParseArgs ==
    /\ pc = "parse_args"
    /\ IF ~Truthy(args.key) /\ ~Truthy(args.time)
       THEN Abort("TypeError")
       ELSE pc' = "open_tgz" /\ exit' = exit
    /\ UNCHANGED <<args, archive, files, origin, filtered_files, done, dest, call>>

\* open_tgz: the members read, in order, skipping those that are not files
\* or do not decode
RECURSIVE opened(_, _, _)
opened(arch, i, n) ==
    IF i > n THEN <<>>
    ELSE (IF arch[i].k = "file" THEN <<i>> ELSE <<>>) \o opened(arch, i + 1, n)

OpenTgz ==
    /\ pc = "open_tgz"
    /\ IF \E i \in 1..Len(titles) : archive[i].k = "missing"
       THEN /\ Abort("KeyError")
            /\ UNCHANGED <<files, origin>>
       ELSE /\ origin' = opened(archive, 1, Len(titles))
            /\ files' = [j \in 1..Len(origin') |-> PyList(archive[origin'[j]].lines)]
            /\ pc' = "filter"
            /\ exit' = exit
    /\ UNCHANGED <<args, archive, filtered_files, done, dest, call>>

\* one pass of the body of the for-loop of main over file, with the
\* Namespace a: the exception raised ("None" if none), the values left in
\* args.key and args.time, and the result appended to filtered_files
loop_body(file, a, nfiles) ==
    LET low == IF a.ignore_case THEN lower_input(file, a.key, a.time)
               ELSE Ok([file |-> file, keys |-> a.key, time |-> a.time])
    IN  IF low.exc # "None"
        THEN [exc |-> low.exc, key |-> a.key, time |-> a.time, res |-> PyNone]
        ELSE
          LET f == low.val.file
              key == low.val.keys
              time == low.val.time
              out == IF Truthy(time) /\ Truthy(key)
                     THEN LET t == parse_by_time(f, time.v, nfiles)
                          IN  IF t.exc # "None" THEN t ELSE parse_by_key(t.val, key.v)
                     ELSE IF Truthy(time) THEN parse_by_time(f, time.v, nfiles)
                     ELSE IF Truthy(key) THEN parse_by_key(f, key.v)
                     ELSE Ok(f)
          IN  [exc |-> out.exc, key |-> key, time |-> time,
               res |-> IF out.exc # "None" THEN PyNone
                       ELSE IF a.ignore_case /\ ~PyIn(PatternNotFound, out.val)
                            THEN restore_logs(out.val, file)
                            ELSE out.val]

\* one iteration of the for-loop of main
FilterFile ==
    /\ pc = "filter"
    /\ Len(filtered_files) < Len(files)
    /\ LET r == loop_body(files[Len(filtered_files) + 1], args, Len(titles))
       IN  /\ args' = [args EXCEPT !.key = r.key, !.time = r.time]
           /\ IF r.exc # "None"
              THEN Abort(r.exc) /\ UNCHANGED filtered_files
              ELSE /\ filtered_files' = Append(filtered_files, r.res)
                   /\ UNCHANGED <<pc, exit>>
    /\ UNCHANGED <<archive, files, origin, done, dest, call>>

\* what write_new_file writes: a title, a log line or the blank separator
Title(name) == [k |-> "title", title |-> name, text |-> <<>>]
Log(s) == [k |-> "log", title |-> "", text |-> s]
Sep == [k |-> "sep", title |-> "", text |-> <<>>]

\* the writes of write_new_file for log_files[i..], titled file_names[i..]
RECURSIVE sections(_, _, _)
sections(log_files, file_names, i) ==
    IF i > Len(log_files) THEN <<>>
    ELSE <<Title(file_names[i])>> \o
         (IF log_files[i] = PyStr(PatternNotFound)
          THEN <<Log(PatternNotFound)>>
          ELSE [j \in 1..Len(Iter(log_files[i])) |-> Log(Iter(log_files[i])[j])]) \o
         <<Sep>> \o
         sections(log_files, file_names, i + 1)

\* write_new_file, once the loop is over, and the exit that follows
WriteNewFile ==
    /\ pc = "filter"
    /\ Len(filtered_files) = Len(files)
    /\ dest' = dest \o sections(filtered_files, titles, 1)
    /\ pc' = "exit"
    /\ exit' = "Successfully generated"
    /\ UNCHANGED <<args, archive, files, origin, filtered_files, done, call>>

Next == ParseArgs \/ OpenTgz \/ FilterFile \/ WriteNewFile

Spec == Init /\ [][Next]_vars

\* ------------------------------------------------------------------------
\* src/logc.py: the single-script variant
\* ------------------------------------------------------------------------
\* check_bounds(logs, ranges)
check_bounds(logs, ranges) ==
    IF range_counter(logs, ranges[1], ranges[2]) # 2 THEN Raise("ValueError") ELSE Ok(PyNone)

\* the loop of filter_by_parameter that compares lower-cased
RECURSIVE folded_scan(_, _, _)
folded_scan(logs, i, key) ==
    IF i > Len(logs) THEN <<>>
    ELSE (IF Contains(lower(key), lower(logs[i])) THEN <<strip(logs[i])>> ELSE <<>>) \o
         folded_scan(logs, i + 1, key)

\* filter_by_parameter(logs, arg_parameter, args)
filter_by_parameter(logs, arg_parameter, a) ==
    IF Contains(SepTo, arg_parameter) /\ a.time = PyStr(arg_parameter)
    THEN LET ranges == split_to(arg_parameter)
         IN  IF check_bounds(logs, ranges).exc # "None" THEN check_bounds(logs, ranges)
             ELSE Ok(PyList(range_scan(logs, 1, ranges[1], ranges[2], FALSE)))
    ELSE LET tmp == IF a.ignore_case /\ a.key = PyStr(arg_parameter)
                    THEN folded_scan(logs, 1, arg_parameter)
                    ELSE stamp_scan(logs, 1, arg_parameter)
         IN  Ok(PyList(IF tmp = <<>> THEN <<PatternNotFound>> ELSE tmp))

\* filter_by_multiple_keys_AND(logs, keys, args)
filter_by_multiple_keys_AND(logs, keys, a) ==
    SelectSeq([i \in 1..Len(logs) |-> [log |-> logs[i], n |-> i]],
              LAMBDA e : \A k \in 1..Len(keys) :
                  IF a.ignore_case THEN Contains(lower(keys[k]), lower(e.log))
                  ELSE Contains(keys[k], e.log))

\* filter_by_multiple_keys_OR(logs, keys, args): the copies of one log
RECURSIVE keys_OR_copies(_, _, _, _)
keys_OR_copies(log, keys, k, ic) ==
    IF k > Len(keys) THEN <<>>
    ELSE (IF (IF ic THEN Contains(lower(keys[k]), lower(log)) ELSE Contains(keys[k], log))
          THEN <<strip(log)>> ELSE <<>>) \o
         keys_OR_copies(log, keys, k + 1, ic)

RECURSIVE filter_by_multiple_keys_OR(_, _, _, _)
filter_by_multiple_keys_OR(logs, i, keys, a) ==
    IF i > Len(logs) THEN <<>>
    ELSE keys_OR_copies(logs[i], keys, 1, a.ignore_case) \o
         filter_by_multiple_keys_OR(logs, i + 1, keys, a)

\* filter_logs(logs, args); the calls of filter_by_parameter that pass two
\* arguments instead of three raise TypeError
filter_logs(logs, a) ==
    LET orSentinel(l) == Ok(PyList(IF l = <<>> THEN <<PatternNotFound>> ELSE l))
    IN  IF Truthy(a.time) /\ Truthy(a.key) THEN Raise("TypeError")
        ELSE IF Truthy(a.time)
             THEN LET r == filter_by_parameter(logs, a.time.v, a)
                  IN  IF r.exc # "None" THEN r ELSE orSentinel(r.val.v)
             ELSE IF a.key_type = "ka"
                  THEN LET m == filter_by_multiple_keys_AND(logs, a.key.v, a)
                       IN  orSentinel([j \in 1..Len(m) |-> strip(m[j].log)])
                  ELSE IF a.key_type = "ko"
                       THEN orSentinel(filter_by_multiple_keys_OR(logs, 1, a.key.v, a))
                       ELSE Raise("TypeError")

\* the -k / -ka / -ko values of a run of the script
ScriptKeys == {[key |-> PyNone, key_type |-> "none"],
               [key |-> PyStr(s_a), key_type |-> "k"],
               [key |-> PyList(<<s_a>>), key_type |-> "ka"],
               [key |-> PyList(<<s_a, s_B>>), key_type |-> "ka"],
               [key |-> PyList(<<s_a, s_B>>), key_type |-> "ko"]}

ScriptTimes == RunTimes \cup {PyStr(lower(s_Oct1))}

\* as Members, but every regular file decodes (latin1), and a member whose
\* name ends in ".gz" is told apart
ScriptMembers ==
    {[k |-> "file", lines |-> l] : l \in SeqsUpTo(RunLineSet, MaxRunLines)} \cup
    {[k |-> "notfile", lines |-> <<>>], [k |-> "gz", lines |-> <<>>],
     [k |-> "missing", lines |-> <<>>]}

ScriptInit ==
    /\ \E n \in 1..MaxFiles, t \in ScriptTimes, k \in ScriptKeys, ic \in BOOLEAN :
          /\ args = [file |-> SubSeq(Names, 1, n), time |-> t, key |-> k.key,
                     key_type |-> k.key_type, ignore_case |-> ic]
          /\ archive \in [1..n -> ScriptMembers]
    /\ files = <<>>
    /\ origin = <<>>
    /\ filtered_files = <<>>
    /\ done = 0
    /\ dest = <<>>
    /\ pc = "curate"
    /\ exit = "None"
    /\ call = NoCall

\* curate_and_standardize_cli_input(args), the paths taken as well-formed
curate_and_standardize_cli_input(a) ==
    IF ~Truthy(a.time) /\ ~Truthy(a.key) THEN "specify at least -t or -k"
    ELSE IF Truthy(a.time) /\ ~BsdSearch(a.time.v, FALSE) /\ ~SD_SYSLOG_FORMAT(a.time.v)
         THEN "Incorrect time format"
    ELSE IF Len(a.file) > 1 /\ Truthy(a.time) /\ Contains(SepTo, a.time.v)
         THEN "range with several files"
    ELSE IF Truthy(a.key) /\ a.key_type \in {"ka", "ko"} /\ Len(a.key.v) < 2
         THEN "requires two or more arguments"
    ELSE IF a.ignore_case /\ ~Truthy(a.key) THEN "ignore_case without key"
    ELSE "None"

ScriptCurate ==
    /\ pc = "curate"
    /\ IF curate_and_standardize_cli_input(args) # "None"
       THEN Abort(curate_and_standardize_cli_input(args))
       ELSE pc' = "parse_logs" /\ exit' = exit
    /\ UNCHANGED <<args, archive, files, origin, filtered_files, done, dest, call>>

\* one iteration of the loop of parse_logs_and_create_file: read the member,
\* filter it, append its section to the destination
ScriptFile ==
    /\ pc = "parse_logs"
    /\ done < Len(args.file)
    /\ LET m == archive[done + 1]
           r == filter_logs(m.lines, args)
       IN  IF m.k = "missing" THEN Abort("KeyError") /\ UNCHANGED <<done, dest>>
           ELSE IF m.k = "notfile" THEN Abort("AttributeError") /\ UNCHANGED <<done, dest>>
           ELSE IF m.k = "gz" THEN Abort("TypeError") /\ UNCHANGED <<done, dest>>
           ELSE IF r.exc # "None" THEN Abort(r.exc) /\ UNCHANGED <<done, dest>>
           ELSE /\ dest' = dest \o <<Title(args.file[done + 1])>> \o
                              [j \in 1..Len(r.val.v) |-> Log(r.val.v[j])] \o <<Sep>>
                /\ done' = done + 1
                /\ UNCHANGED <<pc, exit>>
    /\ UNCHANGED <<args, archive, files, origin, filtered_files, call>>

\* the else-clause of main: every member was handled
ScriptExit ==
    /\ pc = "parse_logs"
    /\ done = Len(args.file)
    /\ pc' = "exit"
    /\ exit' = "successfully created"
    /\ UNCHANGED <<args, archive, files, origin, filtered_files, done, dest, call>>

ScriptNext == ScriptCurate \/ ScriptFile \/ ScriptExit

SpecScript == ScriptInit /\ [][ScriptNext]_vars

\* ------------------------------------------------------------------------
\* One call of parse_by_time, one call of parse_by_key
\* ------------------------------------------------------------------------
Pending == [exc |-> "Pending", val |-> PyNone]

IdleRun ==
    /\ args = [file |-> <<>>, time |-> PyNone, key |-> PyNone, ignore_case |-> FALSE]
    /\ archive = <<>>
    /\ files = <<>>
    /\ origin = <<>>
    /\ filtered_files = <<>>
    /\ done = 0
    /\ dest = <<>>
    /\ pc = "call"
    /\ exit = "None"

TimeInit ==
    /\ IdleRun
    /\ \E f \in SeqsUpTo(LineSet, MaxLines), t \in CallTimes, n \in 1..MaxFiles :
          call = [fn |-> "parse_by_time", file |-> f, time |-> t, keys |-> <<>>,
                  nfiles |-> n, ret |-> Pending]

CallParseByTime ==
    /\ call.fn = "parse_by_time"
    /\ call.ret = Pending
    /\ call' = [call EXCEPT !.ret = parse_by_time(PyList(call.file), call.time, call.nfiles)]
    /\ UNCHANGED <<args, archive, files, origin, filtered_files, done, dest, pc, exit>>

SpecTime == TimeInit /\ [][CallParseByTime]_vars

KeyInit ==
    /\ IdleRun
    /\ \E f \in SeqsUpTo(KeyLineSet, MaxLines), ks \in SeqsUpTo(KeyTokens, MaxKeys) \ {<<>>} :
          call = [fn |-> "parse_by_key", file |-> f, time |-> <<>>, keys |-> ks,
                  nfiles |-> 1, ret |-> Pending]

CallParseByKey ==
    /\ call.fn = "parse_by_key"
    /\ call.ret = Pending
    /\ call' = [call EXCEPT !.ret = parse_by_key(PyList(call.file), call.keys)]
    /\ UNCHANGED <<args, archive, files, origin, filtered_files, done, dest, pc, exit>>

SpecKey == KeyInit /\ [][CallParseByKey]_vars

\* ------------------------------------------------------------------------
\* One call of restore_logs, as main makes it for a file filtered with -i -k
\* ------------------------------------------------------------------------
RestoreKeys == {<<s_a>>, <<s_B>>, <<s_a, kw_or, s_B>>}

\* main lines 46-59: the file is lowered, filtered by key, and the result,
\* unless it is the sentinel, is handed to restore_logs with the real file
RestoreInit ==
    /\ IdleRun
    /\ \E f \in SeqsUpTo(RestoreLineSet, MaxLines), ks \in RestoreKeys :
          LET low == lower_input(PyList(f), PyList(ks), PyNone).val
              out == parse_by_key(low.file, low.keys.v)
          IN  /\ out.exc = "None"
              /\ ~PyIn(PatternNotFound, out.val)
              /\ call = [fn |-> "restore_logs", file |-> f, time |-> <<>>, keys |-> ks,
                         nfiles |-> 1, folded |-> out.val, ret |-> Pending]

CallRestoreLogs ==
    /\ call.fn = "restore_logs"
    /\ call.ret = Pending
    /\ call' = [call EXCEPT !.ret = Ok(restore_logs(call.folded, PyList(call.file)))]
    /\ UNCHANGED <<args, archive, files, origin, filtered_files, done, dest, pc, exit>>

SpecRestore == RestoreInit /\ [][CallRestoreLogs]_vars

\* ------------------------------------------------------------------------
\* Properties of a run of main
\* ------------------------------------------------------------------------
IsSentinel(r) == r = PyStr(PatternNotFound) \/ r = PyList(<<PatternNotFound>>)

\* the member whose lines the i-th per-file result was computed from
SourceLines(i) == archive[origin[i]].lines

\* C1: the per-file result handed to write_new_file is the sentinel or a
\* non-empty sequence of trimmed lines of that file, never an empty sequence.
C1_ResultIsSentinelOrLines ==
    \A i \in 1..Len(filtered_files) :
        LET r == filtered_files[i]
        IN  \/ IsSentinel(r)
            \/ /\ r.t = "list"
               /\ Len(r.v) > 0
               /\ \A j \in 1..Len(r.v) :
                     \E l \in 1..Len(SourceLines(i)) : r.v[j] = strip(SourceLines(i)[l])

\* the flag of the range scan on entry to line i: some earlier line opened
\* the range and no line from there up to i closed it
InsideBefore(logs, i, lo, hi) ==
    \E j \in 1..(i - 1) :
        /\ Contains(lo, logs[j])
        /\ \A k \in j..(i - 1) : ~Contains(hi, logs[k])

\* line i of logs is one the time filter lets through
TimeMatches(logs, i, time) ==
    IF Contains(SepTo, time)
    THEN LET b == split_to(time)
         IN  \/ Contains(b[1], logs[i])
             \/ Contains(b[2], logs[i])
             \/ InsideBefore(logs, i, b[1], b[2])
    ELSE Contains(time, logs[i])

\* the words of a key list that are not operators, and the operator given
IsOperator(tok) == lower(tok) \in {kw_and, kw_or}
Keywords(keys) == SelectSeq(keys, LAMBDA tok : ~IsOperator(tok))
GivenAnd(keys) == \E i \in 1..Len(keys) : lower(keys[i]) = kw_and

\* the key predicate of a key list on one line
KeyHolds(keys, line) ==
    IF Len(keys) = 1 THEN Contains(keys[1], line)
    ELSE IF GivenAnd(keys)
         THEN \A k \in 1..Len(Keywords(keys)) : Contains(Keywords(keys)[k], line)
         ELSE \E k \in 1..Len(Keywords(keys)) : Contains(Keywords(keys)[k], line)

\* the lines as the filters see them: lower-cased under -i
Seen(lines, ic) == IF ic THEN [i \in 1..Len(lines) |-> lower(lines[i])] ELSE lines

\* C2: with a time spec and a key spec, every entry of the final result is a
\* trimmed line of the file that matched the time filter and satisfies the
\* key predicate, and the result is the sentinel when no line matched the
\* time filter.
C2_KeyAfterTime ==
    \A i \in 1..Len(filtered_files) :
        (Truthy(args.time) /\ Truthy(args.key)) =>
            LET src == SourceLines(i)
                seen == Seen(src, args.ignore_case)
                hit == {l \in 1..Len(src) : TimeMatches(seen, l, args.time.v)}
                r == filtered_files[i]
            IN  /\ hit = {} => IsSentinel(r)
                /\ ~IsSentinel(r) =>
                     /\ r.t = "list"
                     /\ \A j \in 1..Len(r.v) :
                           \E l \in hit : /\ r.v[j] = strip(src[l])
                                          /\ KeyHolds(args.key.v, strip(seen[l]))

\* the titles written to the destination, in order
TitlesWritten == SelectSeq(dest, LAMBDA w : w.k = "title")

\* C10: the report has one section per member that was not skipped, in input
\* order, each headed by the name of the member its content came from.
C10_SectionsNameTheirMember ==
    (pc = "exit" /\ exit = "Successfully generated") =>
        /\ Len(TitlesWritten) = Len(origin)
        /\ \A j \in 1..Len(origin) : TitlesWritten[j].title = titles[origin[j]]

Succeeded == exit \in {"Successfully generated", "successfully created"}

\* the fatal errors of either variant: invalid time format, range over
\* several files, range bounds not found, missing or conflicting operators,
\* missing archive member
FatalErrors == {"InvalidTimeError", "Incorrect time format",
                "MoreThanOneFileError", "range with several files",
                "NonExistentRangeError", "ValueError",
                "NoOperatorError", "BothOperatorsError", "KeyError"}

\* C9: a run that aborts with a fatal error, at whichever file, has written
\* nothing to the destination file.
C9_NothingWrittenOnAbort ==
    (pc = "exit" /\ exit \in FatalErrors) => dest = <<>>

\* ------------------------------------------------------------------------
\* Properties of parse_by_time
\* ------------------------------------------------------------------------
Repeat(x, n) == [k \in 1..n |-> x]
B(p) == IF p THEN 1 ELSE 0

RECURSIVE ConcatAll(_)
ConcatAll(ss) == IF ss = <<>> THEN <<>> ELSE Head(ss) \o ConcatAll(Tail(ss))

Trimmed(logs) == [i \in 1..Len(logs) |-> strip(logs[i])]

\* a returned call of parse_by_time on one file with an accepted
\* "lower to upper" expression
RangeCall ==
    /\ call.fn = "parse_by_time"
    /\ call.ret # Pending
    /\ call.nfiles = 1
    /\ BSD_FORMAT(call.time) \/ SD_SYSLOG_FORMAT(call.time)
    /\ Contains(SepTo, call.time)
    /\ Len(split_to(call.time)) = 2

Lower == split_to(call.time)[1]
Upper == split_to(call.time)[2]
Present(tok) == \E i \in 1..Len(call.file) : Contains(tok, call.file[i])

\* how often the range scan includes line i
ScanCount(logs, i, lo, hi) ==
    B(Contains(lo, logs[i])) +
    B(Contains(lo, logs[i]) \/ InsideBefore(logs, i, lo, hi)) +
    B(Contains(hi, logs[i]))

\* C3: in range mode with both bounds present the result is the sequence the
\* scan over all lines produces: per line one copy if it holds the lower
\* token, one if the flag is then set, one if it holds the upper token; the
\* flag is set by any lower token not yet followed by an upper token.
C3_RangeScan ==
    (RangeCall /\ Present(Lower) /\ Present(Upper)) =>
        /\ call.ret.exc = "None"
        /\ call.ret.val =
             PyList(ConcatAll([i \in 1..Len(call.file) |->
                        Repeat(strip(call.file[i]),
                               ScanCount(call.file, i, Lower, Upper))]))

\* a range call in which the lower token recurs after the upper token and
\* a later line without either token is included
C3_Reopened ==
    /\ RangeCall
    /\ call.ret.exc = "None"
    /\ \E j, k, l \in 1..Len(call.file) :
          /\ j < k /\ k < l
          /\ Contains(Upper, call.file[j])
          /\ Contains(Lower, call.file[k]) /\ ~Contains(Upper, call.file[k])
          /\ ~Contains(Lower, call.file[l]) /\ ~Contains(Upper, call.file[l])
          /\ PyIn(strip(call.file[l]), call.ret.val)

\* C4: in range mode NonExistentRangeError is raised exactly when one of the
\* bound tokens occurs in no line; otherwise the result is a non-empty list,
\* not the sentinel, that holds every line in which a bound token occurs.
C4_RangeBounds ==
    RangeCall =>
        /\ call.ret.exc = "NonExistentRangeError" <=> (~Present(Lower) \/ ~Present(Upper))
        /\ call.ret.exc \in {"None", "NonExistentRangeError"}
        /\ call.ret.exc = "None" =>
             /\ call.ret.val.t = "list"
             /\ Len(call.ret.val.v) > 0
             /\ ~IsSentinel(call.ret.val)
             /\ \A i \in 1..Len(call.file) :
                   (Contains(Lower, call.file[i]) \/ Contains(Upper, call.file[i]))
                      => PyIn(strip(call.file[i]), call.ret.val)

\* a range call that raised although the lower token is in the file
C4_UpperMissing ==
    /\ RangeCall
    /\ Present(Lower)
    /\ ~Present(Upper)
    /\ call.ret.exc = "NonExistentRangeError"

\* ------------------------------------------------------------------------
\* Properties of parse_by_key
\* ------------------------------------------------------------------------
KeyCall == call.fn = "parse_by_key" /\ call.ret # Pending

GivenOr(keys) == \E i \in 1..Len(keys) : lower(keys[i]) = kw_or

\* the lines of the call's file in which every keyword occurs as supplied
AllOccur(keys) ==
    SelectSeq(call.file, LAMBDA log :
        \A k \in 1..Len(Keywords(keys)) : Contains(Keywords(keys)[k], log))

\* C5: an AND key spec without case folding returns the lines, trimmed, in
\* file order, once each, in which every keyword as supplied occurs as a
\* case-sensitive substring, or the sentinel when there is none.
C5_AndLiteral ==
    (KeyCall /\ Len(call.keys) > 1 /\ InList(kw_and, call.keys) /\ ~GivenOr(call.keys)) =>
        /\ call.ret.exc = "None"
        /\ call.ret.val = PyList(IF AllOccur(call.keys) = <<>> THEN <<PatternNotFound>>
                                 ELSE Trimmed(AllOccur(call.keys)))

\* the number of the supplied keywords that occur in a line
Occurring(keys, log) ==
    Cardinality({k \in 1..Len(Keywords(keys)) : Contains(Keywords(keys)[k], log)})

\* C6: an OR key spec returns every line N times, N being the number of the
\* supplied keywords that occur in it, in file order, or the sentinel when N
\* is 0 for every line.
C6_OrCounts ==
    (KeyCall /\ Len(call.keys) > 1 /\ InList(kw_or, call.keys) /\ ~GivenAnd(call.keys)) =>
        LET expected == ConcatAll([i \in 1..Len(call.file) |->
                            Repeat(strip(call.file[i]), Occurring(call.keys, call.file[i]))])
        IN  /\ call.ret.exc = "None"
            /\ call.ret.val = PyList(IF expected = <<>> THEN <<PatternNotFound>> ELSE expected)

\* C7: with more than one token, parse_by_key raises BothOperatorsError when
\* the list holds both the word "and" and the word "or", NoOperatorError when
\* it holds neither, and returns a result only when it holds exactly one of
\* them, whatever the file holds (the words as the tests write them; other
\* letter cases are the subject of C8).
C7_OperatorCheck ==
    (KeyCall /\ Len(call.keys) > 1) =>
        LET hasAnd == InList(kw_and, call.keys)
            hasOr == InList(kw_or, call.keys)
        IN  /\ (hasAnd /\ hasOr) => call.ret.exc = "BothOperatorsError"
            /\ (~hasAnd /\ ~hasOr) => call.ret.exc = "NoOperatorError"
            /\ call.ret.exc = "None" => (hasAnd # hasOr)
            /\ call.ret.exc \in {"None", "BothOperatorsError", "NoOperatorError"}

\* a call on an empty file that raised BothOperatorsError
C7_BothOnEmptyFile ==
    /\ KeyCall
    /\ call.file = <<>>
    /\ InList(kw_and, call.keys) /\ InList(kw_or, call.keys)
    /\ call.ret.exc = "BothOperatorsError"

\* a key list with its operator tokens written in lower case
LowerOperators(keys) ==
    [i \in 1..Len(keys) |-> IF IsOperator(keys[i]) THEN lower(keys[i]) ELSE keys[i]]

\* C8: without ignore-case, an operator token written in any letter case is
\* treated as that operator: the call returns or raises what it does for the
\* same list with the operator tokens in lower case.
C8_OperatorAnyCase ==
    (KeyCall /\ Len(call.keys) > 1) =>
        call.ret = parse_by_key(PyList(call.file), LowerOperators(call.keys))

\* ------------------------------------------------------------------------
\* Properties of the time expression syntax
\* ------------------------------------------------------------------------
\* positions right after one ISO token "YYYY-MM-DD[THH[:MM[:SS]]]" read
\* from position p
IsoTokEnds(s, p) ==
    IF /\ \A k \in {p, p + 1, p + 2, p + 3, p + 5, p + 6, p + 8, p + 9} : IsDigit(s, k)
       /\ IsChar(s, p + 4, "-")
       /\ IsChar(s, p + 7, "-")
    THEN LET e == p + 10
             hh == (IsChar(s, e, "T") \/ IsChar(s, e, "t")) /\ IsDigit(s, e + 1) /\ IsDigit(s, e + 2)
             mm == hh /\ IsChar(s, e + 3, ":") /\ IsDigit(s, e + 4) /\ IsDigit(s, e + 5)
             ss == mm /\ IsChar(s, e + 6, ":") /\ IsDigit(s, e + 7) /\ IsDigit(s, e + 8)
         IN  {e} \cup (IF hh THEN {e + 3} ELSE {}) \cup (IF mm THEN {e + 6} ELSE {})
                 \cup (IF ss THEN {e + 9} ELSE {})
    ELSE {}

\* the whole of s is one token, or "token to token", the token ends being
\* given by Ends
WholeOf(s, Ends(_, _)) ==
    \E q \in Ends(s, 1) :
        \/ q = Len(s) + 1
        \/ /\ MatchAt(s, q, SepTo)
           /\ Len(s) + 1 \in Ends(s, q + 4)

BsdEnds(s, p) == BsdTokEnds(s, p, TRUE)
WholeExpression(s) == WholeOf(s, BsdEnds) \/ WholeOf(s, IsoTokEnds)

\* C11: parse_by_time accepts a time expression exactly when the whole of it
\* is a BSD or ISO token or "lower to upper" range; every other string,
\* also one that only contains such a token, raises InvalidTimeError.
C11_AcceptsWholeExpressionsOnly ==
    (call.fn = "parse_by_time" /\ call.ret # Pending) =>
        (call.ret.exc # "InvalidTimeError" <=> WholeExpression(call.time))

\* ------------------------------------------------------------------------
\* Properties of a run with a time range or with -i
\* ------------------------------------------------------------------------
\* the run holds an accepted time expression in range form
RangeRun ==
    /\ Truthy(args.time)
    /\ Contains(SepTo, args.time.v)
    /\ BSD_FORMAT(args.time.v) \/ SD_SYSLOG_FORMAT(args.time.v)

\* -i was given without -k
FoldWithoutKey == args.ignore_case /\ args.key = PyNone

\* C12: MoreThanOneFileError is raised only for a range with more than one
\* selected file; such a run filters no file and writes nothing, and once a
\* file reaches parse_by_time it ends in MoreThanOneFileError.
C12_RangeNeedsOneFile ==
    /\ exit = "MoreThanOneFileError" => (RangeRun /\ Len(titles) > 1)
    /\ (RangeRun /\ Len(titles) > 1) =>
          /\ filtered_files = <<>>
          /\ dest = <<>>
          /\ (pc = "exit" /\ files # <<>> /\ ~FoldWithoutKey) => exit = "MoreThanOneFileError"

\* a run over two opened files that ended in MoreThanOneFileError
C12_RangeOverTwoFiles ==
    /\ pc = "exit"
    /\ exit = "MoreThanOneFileError"
    /\ Len(files) = 2
    /\ dest = <<>>

\* C13: a run with -i and no key spec ends in a reported error and writes
\* nothing; it never ends as a successful run.
C13_FoldWithoutKeyFails ==
    (pc = "exit" /\ FoldWithoutKey) => (~Succeeded /\ dest = <<>>)

\* ------------------------------------------------------------------------
\* Properties of a line that holds both bounds
\* ------------------------------------------------------------------------
\* how often x occurs in the sequence q
Occ(x, q) == Cardinality({j \in 1..Len(q) : q[j] = x})

\* a returned range call whose lines are pairwise different when trimmed, so
\* that the entries of the result tell which line they come from
DistinctRangeCall ==
    /\ RangeCall
    /\ call.ret.exc = "None"
    /\ \A i, j \in 1..Len(call.file) : strip(call.file[i]) = strip(call.file[j]) => i = j

HoldsBoth(i) == Contains(Lower, call.file[i]) /\ Contains(Upper, call.file[i])
HoldsNone(i) == ~Contains(Lower, call.file[i]) /\ ~Contains(Upper, call.file[i])

\* a line with both bounds is included n times and closes the range: a line
\* right after it that holds no bound is not included
BothIncluded(n) ==
    DistinctRangeCall =>
        \A i \in 1..Len(call.file) :
            HoldsBoth(i) =>
                /\ Occ(strip(call.file[i]), call.ret.val.v) = n
                /\ (i < Len(call.file) /\ HoldsNone(i + 1)) =>
                      Occ(strip(call.file[i + 1]), call.ret.val.v) = 0

\* C14 as stated: a line on which both bound tokens occur fires the open and
\* the close transition in that order and is included exactly once.
C14_BothIncludedOnce == BothIncluded(1)

\* C14 as amended: such a line is included exactly three times, once by each
\* of the three tests, and leaves the range closed.
C14_BothIncludedThrice == BothIncluded(3)

\* a range call on a line with both bounds followed by a line with none
C14_BothThenNone ==
    /\ DistinctRangeCall
    /\ \E i \in 1..(Len(call.file) - 1) : HoldsBoth(i) /\ HoldsNone(i + 1)

\* ------------------------------------------------------------------------
\* Properties of restore_logs
\* ------------------------------------------------------------------------
RestoreCall == call.fn = "restore_logs" /\ call.ret # Pending

\* the first original line, in file order, whose lower-cased form contains
\* the folded line
FirstHolding(folded_log) ==
    LET J == {j \in 1..Len(call.file) : Contains(folded_log, lower(call.file[j]))}
    IN  call.file[CHOOSE j \in J : \A k \in J : j <= k]

\* C15: restoration yields exactly one original line per folded matched
\* line, namely the first line of the original file whose lower-cased form
\* contains it, so the result has the length and order of the folded result.
C15_RestoreFirstMatch ==
    RestoreCall =>
        LET folded == Iter(call.folded)
        IN  call.ret.val.v = [k \in 1..Len(folded) |-> strip(FirstHolding(folded[k]))]

\* ------------------------------------------------------------------------
\* Frame of a run
\* ------------------------------------------------------------------------
\* C16: throughout a run the key spec and the time spec held by the run keep
\* the values the user supplied, and the lines of the files read are
\* unchanged once open_tgz has returned them.
C16_SpecsAndFilesKept ==
    [][/\ args'.key = args.key
       /\ args'.time = args.time
       /\ pc = "filter" => files' = files]_vars

====
